---- MODULE Spec2Model ----
(***************************************************************************)
(* Model of adb_client/src/device/commands/shell.rs:                       *)
(*   ADBMessageDevice::shell_command  (one-shot command controller)        *)
(*   ADBMessageDevice::shell          (interactive engine: a detached      *)
(*                                     reading thread and the caller's     *)
(*                                     std::io::copy pump)                 *)
(* Every transport read, transport write and sink write is one step, so    *)
(* that the order of the I/O operations and the interleaving of the two    *)
(* halves of shell() are visible in the reachable states.                  *)
(***************************************************************************)
EXTENDS Integers, Sequences, FiniteSets

\* ---------------------------------------------------------------- bounds
\* messages shell_command reads from the transport in one run
MaxReads == 4
\* messages the reading thread of shell() reads in one run
MaxThreadReads == 2
\* chunks std::io::copy takes from the input source in one run
MaxChunks == 1

\* ------------------------------------------------------------ input sets
\* (local_id, remote_id) of the logical streams multiplexed on the transport
Streams == {<<7, 42>>, <<7, 43>>, <<8, 42>>}
\* payloads a device data frame can carry
Payloads == {"a", "b"}
\* chunks the input source of shell() can produce
Chunks == {"x"}
\* MessageCommand values; Open stands for every command that is neither
\* Write, Okay nor Clse
MessageCommand == {"Write", "Okay", "Clse", "Open"}
\* std::io::ErrorKind values std::io::copy can fail with
ErrorKinds == {"BrokenPipe", "ConnectionReset", "Other"}

\* ADBTransportMessage::new(command, arg0, arg1, payload)
ADBTransportMessage(command, arg0, arg1, payload) ==
    [command |-> command, arg0 |-> arg0, arg1 |-> arg1, payload |-> payload]

\* the messages the device side can put on the transport: arg0 is the
\* sender's (device) id, arg1 the recipient's (client) id
Inbound ==
    {ADBTransportMessage("Write", s[2], s[1], p) : s \in Streams, p \in Payloads}
    \cup {ADBTransportMessage(c, s[2], s[1], "") :
            c \in MessageCommand \ {"Write"}, s \in Streams}

NoMessage == ADBTransportMessage("None", 0, 0, "")

VARIABLES
    call,                    \* entry point invoked: "shell_command" or "shell"
    pc,                      \* position of the caller's thread
    result,                  \* value returned to the caller ("None" while running)
    local_id, remote_id,     \* ids of the established session
    have_unconfirmed_writes, \* shell_command's flag
    response,                \* shell_command: message read in this iteration
    received,                \* messages delivered by transport.read_message, in order
    sent,                    \* messages accepted by transport.write_message, in order
    output,                  \* shell_command: payloads written to `output`
    thread_pc,               \* position of the reading thread of shell()
    thread_result,           \* value the reading thread's closure returned
    message,                 \* reading thread: message read in this iteration
    writer,                  \* shell: payloads written to `writer`
    flushed,                 \* shell: number of payloads of `writer` flushed
    buf,                     \* std::io::copy: chunk read and not yet written
    copy_result              \* outcome of std::io::copy ("None" while running)

vars == <<call, pc, result, local_id, remote_id, have_unconfirmed_writes,
          response, received, sent, output, thread_pc, thread_result,
          message, writer, flushed, buf, copy_result>>

cmdVars == <<have_unconfirmed_writes, response, output>>
threadVars == <<thread_pc, thread_result, message, writer, flushed>>
copyVars == <<buf, copy_result>>

\* ------------------------------------------------------------- helpers
RECURSIVE CountCommand(_, _)
CountCommand(msgs, c) ==
    IF msgs = <<>> THEN 0
    ELSE (IF Head(msgs).command = c THEN 1 ELSE 0) + CountCommand(Tail(msgs), c)

\* shell.rs:50  the Close is for our session
IsOurSession(m, lid, rid) == m.arg1 = lid /\ m.arg0 = rid

\* shell.rs:34-35, 106-107  the Okay acknowledgment
AckMessage(lid, rid) == ADBTransportMessage("Okay", lid, rid, "")

\* mutant: the ids of the reply in the order of the received header
CloseMessage_Swapped(lid, rid) == ADBTransportMessage("Clse", rid, lid, "")

\* shell.rs:53-58  the Clse reply
CloseMessage(lid, rid) == ADBTransportMessage("Clse", lid, rid, "")

Init ==
    /\ call \in {"shell_command", "shell"}
    /\ pc = "open_session"
    /\ result = "None"
    /\ local_id = 0
    /\ remote_id = 0
    /\ have_unconfirmed_writes = FALSE
    /\ response = NoMessage
    /\ received = <<>>
    /\ sent = <<>>
    /\ output = <<>>
    /\ thread_pc = "not_spawned"
    /\ thread_result = "None"
    /\ message = NoMessage
    /\ writer = <<>>
    /\ flushed = 0
    /\ buf = ""
    /\ copy_result = "None"

\* ====================================================== shell_command
\* mutant: the command of the session-open response is not checked
CmdOpenSession_NoCheck ==
    /\ call = "shell_command"
    /\ pc = "open_session"
    /\ \/ /\ pc' = "returned"
          /\ result' = "TransportError"
          /\ UNCHANGED <<local_id, remote_id, response>>
       \/ \E c \in MessageCommand, s \in Streams :
            /\ response' = ADBTransportMessage(c, s[2], s[1], "")
            /\ pc' = "read_message"
            /\ local_id' = s[1]
            /\ remote_id' = s[2]
            /\ UNCHANGED result
    /\ UNCHANGED <<call, have_unconfirmed_writes, output, received, sent,
                   threadVars, copyVars>>

\* shell.rs:13-26  open_session(..)?, the check of its response, the session
\* ids; `response` is the message open_session returned
CmdOpenSession ==
    /\ call = "shell_command"
    /\ pc = "open_session"
    /\ \/ /\ pc' = "returned"
          /\ result' = "TransportError"
          /\ UNCHANGED <<local_id, remote_id, response>>
       \/ \E c \in MessageCommand, s \in Streams :
            /\ response' = ADBTransportMessage(c, s[2], s[1], "")
            /\ IF c # "Okay"
               THEN /\ pc' = "returned"
                    /\ result' = "ADBRequestFailed"
                    /\ UNCHANGED <<local_id, remote_id>>
               ELSE /\ pc' = "read_message"
                    /\ local_id' = s[1]
                    /\ remote_id' = s[2]
                    /\ UNCHANGED result
    /\ UNCHANGED <<call, have_unconfirmed_writes, output, received, sent,
                   threadVars, copyVars>>

\* mutant: every Clse is taken for a close of our session
CmdArm_AnyClose(m, lid, rid) ==
    CASE m.command = "Write" -> "write_ack"
      [] m.command = "Okay" -> "read_message"
      [] m.command = "Clse" -> "write_close"
      [] OTHER -> "unexpected"

\* mutant: no Okay arm, an Okay falls to the catch-all arm
CmdArm_OkayUnexpected(m, lid, rid) ==
    CASE m.command = "Write" -> "write_ack"
      [] m.command = "Clse" ->
            IF IsOurSession(m, lid, rid) THEN "write_close" ELSE "read_message"
      [] OTHER -> "unexpected"

\* mutant: the Write arm writes the payload without acknowledging first
CmdArm_PayloadFirst(m, lid, rid) ==
    CASE m.command = "Write" -> "write_output"
      [] m.command = "Okay" -> "read_message"
      [] m.command = "Clse" ->
            IF IsOurSession(m, lid, rid) THEN "write_close" ELSE "read_message"
      [] OTHER -> "unexpected"

\* mutant: the catch-all arm continues the loop instead of failing
CmdArm_IgnoreUnexpected(m, lid, rid) ==
    CASE m.command = "Write" -> "write_ack"
      [] m.command = "Clse" ->
            IF IsOurSession(m, lid, rid) THEN "write_close" ELSE "read_message"
      [] OTHER -> "read_message"

\* shell.rs:31-80  the arm of the match a message is dispatched to
CmdArm(m, lid, rid) ==
    CASE m.command = "Write" -> "write_ack"
      [] m.command = "Okay" -> "read_message"
      [] m.command = "Clse" ->
            IF IsOurSession(m, lid, rid) THEN "write_close" ELSE "read_message"
      [] OTHER -> "unexpected"

\* shell.rs:29-31, 44-50, 70-79  read_message()? and the match on its command
CmdReadMessage ==
    /\ call = "shell_command"
    /\ pc = "read_message"
    /\ Len(received) < MaxReads
    /\ \/ /\ pc' = "returned"
          /\ result' = "TransportError"
          /\ UNCHANGED <<response, received>>
       \/ \E m \in Inbound :
            /\ response' = m
            /\ received' = Append(received, m)
            /\ IF CmdArm(m, local_id, remote_id) = "unexpected"
               THEN /\ pc' = "returned"
                    /\ result' = "ADBRequestFailed"
               ELSE /\ pc' = CmdArm(m, local_id, remote_id)
                    /\ UNCHANGED result
    /\ UNCHANGED <<call, local_id, remote_id, have_unconfirmed_writes, sent,
                   output, threadVars, copyVars>>

\* mutant: the error of the ack write is dropped and the arm goes on
CmdWriteAck_FailureIgnored ==
    /\ call = "shell_command"
    /\ pc = "write_ack"
    /\ \/ UNCHANGED sent
       \/ sent' = Append(sent, AckMessage(local_id, remote_id))
    /\ pc' = "write_output"
    /\ UNCHANGED <<call, result, local_id, remote_id, cmdVars, received,
                   threadVars, copyVars>>

\* shell.rs:34-36  write_message(ack)?
CmdWriteAck ==
    /\ call = "shell_command"
    /\ pc = "write_ack"
    /\ \/ /\ pc' = "returned"
          /\ result' = "TransportError"
          /\ UNCHANGED sent
       \/ /\ sent' = Append(sent, AckMessage(local_id, remote_id))
          /\ pc' = "write_output"
          /\ UNCHANGED result
    /\ UNCHANGED <<call, local_id, remote_id, cmdVars, received, threadVars, copyVars>>

\* mutant: the payload is written but the flag is not set
CmdWriteOutput_FlagNotSet ==
    /\ call = "shell_command"
    /\ pc = "write_output"
    /\ \/ /\ pc' = "returned"
          /\ result' = "IOError"
          /\ UNCHANGED output
       \/ /\ output' = Append(output, response.payload)
          /\ pc' = "read_message"
          /\ UNCHANGED result
    /\ UNCHANGED <<call, local_id, remote_id, have_unconfirmed_writes, response,
                   received, sent, threadVars, copyVars>>

\* shell.rs:39-42  output.write_all(payload)?; have_unconfirmed_writes = true
CmdWriteOutput ==
    /\ call = "shell_command"
    /\ pc = "write_output"
    /\ \/ /\ pc' = "returned"
          /\ result' = "IOError"
          /\ UNCHANGED <<output, have_unconfirmed_writes>>
       \/ /\ output' = Append(output, response.payload)
          /\ have_unconfirmed_writes' = TRUE
          /\ pc' = "read_message"
          /\ UNCHANGED result
    /\ UNCHANGED <<call, local_id, remote_id, response, received, sent,
                   threadVars, copyVars>>

\* mutant: a close that finds the flag false continues the loop too
CmdWriteClose_NeverBreak ==
    /\ call = "shell_command"
    /\ pc = "write_close"
    /\ \/ /\ pc' = "returned"
          /\ result' = "TransportError"
          /\ UNCHANGED sent
       \/ /\ sent' = Append(sent, CloseMessage(local_id, remote_id))
          /\ pc' = "read_message"
          /\ UNCHANGED result
    /\ have_unconfirmed_writes' = FALSE
    /\ UNCHANGED <<call, local_id, remote_id, response, received, output,
                   threadVars, copyVars>>

\* mutant: the Clse reply is written only on the branch that ends the loop
CmdWriteClose_ReplyOnlyWhenFinal ==
    /\ call = "shell_command"
    /\ pc = "write_close"
    /\ IF have_unconfirmed_writes
       THEN /\ have_unconfirmed_writes' = FALSE
            /\ pc' = "read_message"
            /\ UNCHANGED <<result, sent>>
       ELSE \/ /\ pc' = "returned"
               /\ result' = "TransportError"
               /\ UNCHANGED <<sent, have_unconfirmed_writes>>
            \/ /\ sent' = Append(sent, CloseMessage(local_id, remote_id))
               /\ pc' = "returned"
               /\ result' = "Ok"
               /\ UNCHANGED have_unconfirmed_writes
    /\ UNCHANGED <<call, local_id, remote_id, response, received, output,
                   threadVars, copyVars>>

\* mutant: a close after data continues the loop without resetting the flag
CmdWriteClose_NoReset ==
    /\ call = "shell_command"
    /\ pc = "write_close"
    /\ \/ /\ pc' = "returned"
          /\ result' = "TransportError"
          /\ UNCHANGED sent
       \/ /\ sent' = Append(sent, CloseMessage(local_id, remote_id))
          /\ IF have_unconfirmed_writes
             THEN /\ pc' = "read_message"
                  /\ UNCHANGED result
             ELSE /\ pc' = "returned"
                  /\ result' = "Ok"
    /\ UNCHANGED <<call, local_id, remote_id, have_unconfirmed_writes, response,
                   received, output, threadVars, copyVars>>

\* shell.rs:53-69, 83  write_message(close_msg)?; then the flag decides
CmdWriteClose ==
    /\ call = "shell_command"
    /\ pc = "write_close"
    /\ \/ /\ pc' = "returned"
          /\ result' = "TransportError"
          /\ UNCHANGED <<sent, have_unconfirmed_writes>>
       \/ /\ sent' = Append(sent, CloseMessage(local_id, remote_id))
          /\ IF have_unconfirmed_writes
             THEN /\ have_unconfirmed_writes' = FALSE
                  /\ pc' = "read_message"
                  /\ UNCHANGED result
             ELSE /\ pc' = "returned"
                  /\ result' = "Ok"
                  /\ UNCHANGED have_unconfirmed_writes
    /\ UNCHANGED <<call, local_id, remote_id, response, received, output,
                   threadVars, copyVars>>

NextCommand ==
    \/ CmdOpenSession
    \/ CmdReadMessage
    \/ CmdWriteAck
    \/ CmdWriteOutput
    \/ CmdWriteClose

\* shell_command alone, its thread always taking its next step: the calls
\* of the loop block until they complete or fail, and nothing else suspends
\* the controller
InitCommand == Init /\ call = "shell_command"

SpecCommandFair == InitCommand /\ [][NextCommand]_vars /\ WF_vars(NextCommand)

\* ---- the loop of shell_command as a function of the messages it reads,
\* when no I/O operation fails
\* shell.rs:26  the state the loop starts in
LoopStart ==
    [sent |-> <<>>, output |-> <<>>, flag |-> FALSE, result |-> "None"]

\* shell.rs:29-80  one iteration of the loop on message m
LoopIteration(st, m, lid, rid) ==
    IF st.result # "None" THEN st
    ELSE CASE m.command = "Write" ->
                [st EXCEPT !.sent = Append(@, AckMessage(lid, rid)),
                           !.output = Append(@, m.payload),
                           !.flag = TRUE]
           [] m.command = "Okay" -> st
           [] m.command = "Clse" ->
                IF IsOurSession(m, lid, rid)
                THEN IF st.flag
                     THEN [st EXCEPT !.sent = Append(@, CloseMessage(lid, rid)),
                                     !.flag = FALSE]
                     ELSE [st EXCEPT !.sent = Append(@, CloseMessage(lid, rid)),
                                     !.result = "Ok"]
                ELSE st
           [] OTHER -> [st EXCEPT !.result = "ADBRequestFailed"]

\* shell.rs:28-81  the loop on the messages msgs
RECURSIVE RunLoop(_, _, _, _)
RunLoop(st, msgs, lid, rid) ==
    IF msgs = <<>> THEN st
    ELSE RunLoop(LoopIteration(st, Head(msgs), lid, rid), Tail(msgs), lid, rid)

\* ============================================================== shell
\* shell.rs:93-101  open_session(..)? (its response is not inspected), the
\* session ids, and the spawn of the reading thread
ShellOpenSession ==
    /\ call = "shell"
    /\ pc = "open_session"
    /\ \/ /\ pc' = "returned"
          /\ result' = "TransportError"
          /\ UNCHANGED <<local_id, remote_id, thread_pc>>
       \/ \E s \in Streams :
            /\ local_id' = s[1]
            /\ remote_id' = s[2]
            /\ thread_pc' = "read_message"
            /\ pc' = "copy_read"
            /\ UNCHANGED result
    /\ UNCHANGED <<call, cmdVars, received, sent, thread_result, message,
                   writer, flushed, copyVars>>

\* ---- reading thread (shell.rs:101-119)
\* shell.rs:103  transport.read_message()?
ThreadReadMessage ==
    /\ thread_pc = "read_message"
    /\ Len(received) < MaxThreadReads
    /\ \/ /\ thread_pc' = "exited"
          /\ thread_result' = "TransportError"
          /\ UNCHANGED <<message, received>>
       \/ \E m \in Inbound :
            /\ message' = m
            /\ received' = Append(received, m)
            /\ thread_pc' = "write_ack"
            /\ UNCHANGED thread_result
    /\ UNCHANGED <<call, pc, result, local_id, remote_id, cmdVars, sent,
                   writer, flushed, copyVars>>

\* shell.rs:110-117  the arm of the reading thread's match
ThreadArm(m) ==
    CASE m.command = "Write" -> "write_all"
      [] m.command = "Okay" -> "read_message"
      [] OTHER -> "not_supported"

\* mutant: the command is matched first; only Write and Okay are acknowledged
ThreadWriteAck_MatchFirst ==
    /\ thread_pc = "write_ack"
    /\ IF ThreadArm(message) = "not_supported"
       THEN /\ thread_pc' = "exited"
            /\ thread_result' = "ADBShellNotSupported"
            /\ UNCHANGED sent
       ELSE \/ /\ thread_pc' = "exited"
               /\ thread_result' = "TransportError"
               /\ UNCHANGED sent
            \/ /\ sent' = Append(sent, AckMessage(local_id, remote_id))
               /\ thread_pc' = ThreadArm(message)
               /\ UNCHANGED thread_result
    /\ UNCHANGED <<call, pc, result, local_id, remote_id, cmdVars, received,
                   message, writer, flushed, copyVars>>

\* shell.rs:106-110, 115-116  transport.write_message(response)?; then the match
ThreadWriteAck ==
    /\ thread_pc = "write_ack"
    /\ \/ /\ thread_pc' = "exited"
          /\ thread_result' = "TransportError"
          /\ UNCHANGED sent
       \/ /\ sent' = Append(sent, AckMessage(local_id, remote_id))
          /\ IF ThreadArm(message) = "not_supported"
             THEN /\ thread_pc' = "exited"
                  /\ thread_result' = "ADBShellNotSupported"
             ELSE /\ thread_pc' = ThreadArm(message)
                  /\ UNCHANGED thread_result
    /\ UNCHANGED <<call, pc, result, local_id, remote_id, cmdVars, received,
                   message, writer, flushed, copyVars>>

\* shell.rs:112  writer.write_all(payload)?
ThreadWriteAll ==
    /\ thread_pc = "write_all"
    /\ \/ /\ thread_pc' = "exited"
          /\ thread_result' = "IOError"
          /\ UNCHANGED writer
       \/ /\ writer' = Append(writer, message.payload)
          /\ thread_pc' = "flush"
          /\ UNCHANGED thread_result
    /\ UNCHANGED <<call, pc, result, local_id, remote_id, cmdVars, received,
                   sent, message, flushed, copyVars>>

\* shell.rs:113  writer.flush()?
ThreadFlush ==
    /\ thread_pc = "flush"
    /\ \/ /\ thread_pc' = "exited"
          /\ thread_result' = "IOError"
          /\ UNCHANGED flushed
       \/ /\ flushed' = Len(writer)
          /\ thread_pc' = "read_message"
          /\ UNCHANGED thread_result
    /\ UNCHANGED <<call, pc, result, local_id, remote_id, cmdVars, received,
                   sent, message, writer, copyVars>>

\* ---- caller's thread (shell.rs:121-132)
\* std::io::copy: reader.read(): a chunk, end of input, or an error
CopyRead ==
    /\ pc = "copy_read"
    /\ \/ /\ copy_result' = "Ok"
          /\ pc' = "match_copy"
          /\ UNCHANGED buf
       \/ \E k \in ErrorKinds :
            /\ copy_result' = k
            /\ pc' = "match_copy"
            /\ UNCHANGED buf
       \/ \E c \in Chunks :
            /\ CountCommand(sent, "Write") < MaxChunks
            /\ buf' = c
            /\ pc' = "copy_write"
            /\ UNCHANGED copy_result
    /\ UNCHANGED <<call, result, local_id, remote_id, cmdVars, received, sent,
                   threadVars>>

\* ShellMessageWriter::write: the chunk becomes one Write message of the
\* session on the transport; a failure of the write is the copy's failure
ShellMessageWriterWrite ==
    /\ pc = "copy_write"
    /\ \/ \E k \in ErrorKinds :
            /\ copy_result' = k
            /\ pc' = "match_copy"
            /\ UNCHANGED <<sent, buf>>
       \/ /\ sent' = Append(sent, ADBTransportMessage("Write", local_id, remote_id, buf))
          /\ buf' = ""
          /\ pc' = "copy_read"
          /\ UNCHANGED copy_result
    /\ UNCHANGED <<call, result, local_id, remote_id, cmdVars, received,
                   threadVars>>

\* mutant: a broken pipe is surfaced like every other error
ShellResult_BrokenPipeFails(outcome) ==
    CASE outcome = "Ok" -> "Ok"
      [] OTHER -> "IOError"

\* shell.rs:125-132  the value shell() returns for an outcome of the copy
ShellResult(outcome) ==
    CASE outcome = "Ok" -> "Ok"
      [] outcome = "BrokenPipe" -> "Ok"
      [] OTHER -> "IOError"

\* mutant: the return of shell() stops the reading thread
ShellReturn_Cancel ==
    /\ pc = "match_copy"
    /\ result' = ShellResult(copy_result)
    /\ pc' = "returned"
    /\ thread_pc' = "exited"
    /\ thread_result' = IF thread_pc = "exited" THEN thread_result ELSE "Cancelled"
    /\ UNCHANGED <<call, local_id, remote_id, cmdVars, received, sent,
                   message, writer, flushed, copyVars>>

\* mutant: the reading thread is joined and its error is returned
ShellReturn_Join ==
    /\ pc = "match_copy"
    /\ thread_pc = "exited"
    /\ result' = IF ShellResult(copy_result) = "Ok"
                 THEN thread_result ELSE ShellResult(copy_result)
    /\ pc' = "returned"
    /\ UNCHANGED <<call, local_id, remote_id, cmdVars, received, sent,
                   threadVars, copyVars>>

\* shell.rs:125-132  if let Err(e) = copy(..) { match e.kind() .. }; Ok(())
ShellReturn ==
    /\ pc = "match_copy"
    /\ result' = ShellResult(copy_result)
    /\ pc' = "returned"
    /\ UNCHANGED <<call, local_id, remote_id, cmdVars, received, sent,
                   threadVars, copyVars>>

NextShell ==
    \/ ShellOpenSession
    \/ ThreadReadMessage
    \/ ThreadWriteAck
    \/ ThreadWriteAll
    \/ ThreadFlush
    \/ CopyRead
    \/ ShellMessageWriterWrite
    \/ ShellReturn

Next == NextCommand \/ NextShell

Spec == Init /\ [][Next]_vars
\* ================================================================ claims
\* ---- vocabulary of the claims
Last(s) == s[Len(s)]
Front(s) == SubSeq(s, 1, Len(s) - 1)
Payloads_of(msgs) == [i \in 1..Len(msgs) |-> msgs[i].payload]

\* the message belongs to the established stream
Matching(m) == m.arg1 = local_id /\ m.arg0 = remote_id
AllMatching(msgs) == \A i \in 1..Len(msgs) : Matching(msgs[i])
AllData(msgs) == \A i \in 1..Len(msgs) : msgs[i].command = "Write"

\* an I/O operation of the run failed (transport read or write, sink write)
IOFailures == {"TransportError", "IOError"}

\* shell_command is established and is not in the middle of handling a message
CmdEstablished == call = "shell_command" /\ local_id # 0
CmdQuiescent ==
    /\ CmdEstablished
    /\ pc \in {"read_message", "returned"}
    /\ result \notin IOFailures

\* ---- C1
\* C1: while the message shell_command is handling is a data, ack or close
\* frame of another stream, no step changes the flag, the output or the
\* frames sent, and the controller does not return (other than by an I/O
\* failure): a foreign frame is a pure no-op.
C1_ForeignFramesAreNoOps ==
    [][(/\ CmdEstablished
        /\ response'.command \in {"Write", "Okay", "Clse"}
        /\ ~Matching(response'))
       => (/\ have_unconfirmed_writes' = have_unconfirmed_writes
           /\ output' = output
           /\ sent' = sent
           /\ (result' = result \/ result' \in IOFailures))]_vars

\* ---- C2
\* the inbound sequence is n matching data frames and then one matching close
DataThenClose(msgs) ==
    /\ msgs # <<>>
    /\ AllMatching(msgs)
    /\ AllData(Front(msgs))
    /\ Last(msgs).command = "Clse"

\* C2 as claimed: after N data frames and one close (all matching, all
\* handled, no I/O failure) N acks and one close were emitted, the N payloads
\* are in the output in arrival order, and shell_command has returned Ok.
C2_AsClaimed ==
    (CmdQuiescent /\ DataThenClose(received))
    => (/\ CountCommand(sent, "Okay") = Len(received) - 1
        /\ CountCommand(sent, "Clse") = 1
        /\ output = Payloads_of(Front(received))
        /\ pc = "returned"
        /\ result = "Ok")

\* C2 amended: after N data frames and one close (all matching, all handled,
\* no I/O failure) N acks and one close were emitted and the N payloads are in
\* the output in arrival order; shell_command has returned Ok when N = 0, and
\* when N >= 1 it has reset the flag and is back at read_message.
C2_DataThenClose ==
    (CmdQuiescent /\ DataThenClose(received))
    => (/\ CountCommand(sent, "Okay") = Len(received) - 1
        /\ CountCommand(sent, "Clse") = 1
        /\ output = Payloads_of(Front(received))
        /\ (Len(received) = 1 => pc = "returned" /\ result = "Ok")
        /\ (Len(received) > 1 =>
                pc = "read_message" /\ result = "None" /\ ~have_unconfirmed_writes))

C2_Witness ==
    /\ CmdQuiescent
    /\ DataThenClose(received)
    /\ Len(received) = 3
    /\ output = <<"b", "a">>
    /\ pc = "read_message"

\* ---- C3
\* the inbound sequence is data, close, data, close, all matching
DataCloseDataClose(msgs) ==
    /\ Len(msgs) = 4
    /\ AllMatching(msgs)
    /\ msgs[1].command = "Write"
    /\ msgs[2].command = "Clse"
    /\ msgs[3].command = "Write"
    /\ msgs[4].command = "Clse"

\* C3 as claimed: after data, close, data, close shell_command has emitted
\* 2 closes, forwarded 2 payloads and has returned Ok at the second close.
C3_AsClaimed ==
    (CmdQuiescent /\ DataCloseDataClose(received))
    => (/\ CountCommand(sent, "Clse") = 2
        /\ Len(output) = 2
        /\ pc = "returned"
        /\ result = "Ok")

\* C3 amended: after data, close, data, close shell_command has emitted
\* 2 closes and forwarded the 2 payloads, and it has returned neither at the
\* first nor at the second close: the flag was true at both, the second close
\* reset it and the loop is back at read_message.
C3_DataCloseDataClose ==
    (CmdQuiescent /\ DataCloseDataClose(received))
    => (/\ CountCommand(sent, "Clse") = 2
        /\ output = <<received[1].payload, received[3].payload>>
        /\ pc = "read_message"
        /\ result = "None"
        /\ ~have_unconfirmed_writes)

C3_Witness ==
    /\ CmdQuiescent
    /\ DataCloseDataClose(received)
    /\ CountCommand(sent, "Clse") = 2
    /\ output = <<"a", "b">>

\* ---- C4
\* C4: when the first message after establishment is a matching close, then
\* once it is handled without I/O failure exactly one frame was emitted, the
\* close (local_id, remote_id), the output is empty and the result is Ok.
C4_CloseFirst ==
    (/\ CmdQuiescent
     /\ received # <<>>
     /\ received[1].command = "Clse"
     /\ Matching(received[1]))
    => (/\ sent = <<[command |-> "Clse", arg0 |-> local_id,
                     arg1 |-> remote_id, payload |-> ""]>>
        /\ output = <<>>
        /\ Len(received) = 1
        /\ pc = "returned"
        /\ result = "Ok")

C4_Witness ==
    /\ CmdQuiescent
    /\ local_id = 7
    /\ remote_id = 42
    /\ received = <<[command |-> "Clse", arg0 |-> 42, arg1 |-> 7, payload |-> ""]>>
    /\ sent = <<[command |-> "Clse", arg0 |-> 7, arg1 |-> 42, payload |-> ""]>>
    /\ result = "Ok"

\* ---- C5
\* C5: the step of shell_command that reads a message whose command is not
\* Write, Okay or Clse returns ADBRequestFailed at once, emitting no frame and
\* writing no output, whatever the flag; and once shell_command has returned
\* no step reads a message, emits a frame or writes output.
C5_UnexpectedCommandFails ==
    [][/\ (/\ call = "shell_command"
           /\ received' # received
           /\ Last(received').command \notin {"Write", "Okay", "Clse"})
          => (/\ pc' = "returned"
              /\ result' = "ADBRequestFailed"
              /\ sent' = sent
              /\ output' = output)
       /\ (call = "shell_command" /\ pc = "returned")
          => (received' = received /\ sent' = sent /\ output' = output)]_vars

C5_Witness ==
    /\ call = "shell_command"
    /\ have_unconfirmed_writes
    /\ received # <<>>
    /\ Last(received).command = "Open"
    /\ pc = "returned"
    /\ result = "ADBRequestFailed"
\* ---- C6
\* the reading thread of shell() is not in the middle of handling a message
\* and no I/O operation of it failed
ThreadQuiescent ==
    /\ call = "shell"
    /\ \/ thread_pc = "read_message"
       \/ thread_pc = "exited" /\ thread_result \notin IOFailures

\* C6: in both controllers, once every received message is handled without
\* I/O failure, the Okay frames emitted are as many as the Write frames
\* received.
C6_OneAckPerDataFrame ==
    (CmdQuiescent \/ ThreadQuiescent)
    => CountCommand(sent, "Okay") = CountCommand(received, "Write")

\* ---- C7
\* C7: in both controllers, while the message being handled is a Clse of
\* another stream, no step of the controller emits a Clse, changes the flag
\* or the sink, or ends the controller (other than by an I/O failure).
C7_ForeignCloseIgnored ==
    [][/\ (/\ CmdEstablished
           /\ response'.command = "Clse"
           /\ ~Matching(response'))
          => (/\ have_unconfirmed_writes' = have_unconfirmed_writes
              /\ output' = output
              /\ CountCommand(sent', "Clse") = CountCommand(sent, "Clse")
              /\ (result' = result \/ result' \in IOFailures))
       /\ (/\ call = "shell"
           /\ thread_pc' # thread_pc
           /\ message'.command = "Clse"
           /\ ~Matching(message'))
          => (/\ writer' = writer
              /\ CountCommand(sent', "Clse") = CountCommand(sent, "Clse")
              /\ (thread_pc' # "exited" \/ thread_result' \in IOFailures))]_vars

\* ---- C8
\* C8: shell() returns Ok when the copy ended at end of input or failed with
\* BrokenPipe, and an error for every other error kind; and a write of the
\* first chunk that fails with BrokenPipe puts no Write frame on the
\* transport.
C8_OutboundOutcome ==
    /\ [](/\ (call = "shell" /\ pc = "returned" /\ copy_result = "Ok")
             => result = "Ok"
          /\ (call = "shell" /\ pc = "returned" /\ copy_result = "BrokenPipe")
             => result = "Ok"
          /\ (call = "shell" /\ pc = "returned"
                /\ copy_result \in ErrorKinds \ {"BrokenPipe"})
             => result = "IOError")
    /\ [][(/\ pc = "copy_write"
           /\ CountCommand(sent, "Write") = 0
           /\ copy_result' = "BrokenPipe")
          => CountCommand(sent', "Write") = 0]_vars

C8_Witness ==
    /\ call = "shell"
    /\ pc = "returned"
    /\ copy_result = "BrokenPipe"
    /\ buf # ""
    /\ CountCommand(sent, "Write") = 0
    /\ result = "Ok"

\* ---- C9
\* C9: no step of the reading thread changes the caller's position, the
\* copy's outcome or the value returned; the return of shell() is enabled as
\* soon as the copy has ended, whatever the reading thread's position; and
\* the value returned is never an outcome of the reading thread.
C9_ResultIgnoresInboundHalf ==
    /\ [][(thread_pc' # thread_pc \/ thread_result' # thread_result)
          => (thread_pc = "not_spawned" \/ UNCHANGED <<pc, result, copy_result>>)]_vars
    /\ [](pc = "match_copy" => ENABLED ShellReturn)
    /\ []((call = "shell" /\ pc = "returned" /\ thread_pc # "not_spawned")
          => result = (IF copy_result \in {"Ok", "BrokenPipe"} THEN "Ok" ELSE "IOError"))

\* shell() has returned Ok while the reading thread had already failed
C9_Witness ==
    /\ call = "shell"
    /\ pc = "returned"
    /\ result = "Ok"
    /\ thread_pc = "exited"
    /\ thread_result = "ADBShellNotSupported"

\* ---- C10
CountMatchingClose(msgs) ==
    Cardinality({i \in 1..Len(msgs) : msgs[i].command = "Clse" /\ Matching(msgs[i])})
CountCloseReplies(msgs) ==
    Cardinality({i \in 1..Len(msgs) : msgs[i] = [command |-> "Clse", arg0 |-> local_id,
                                                  arg1 |-> remote_id, payload |-> ""]})

\* C10: in both controllers, once every received message is handled without
\* I/O failure, the Clse frames (local_id, remote_id) emitted are as many as
\* the matching Clse frames received.
C10_MatchingCloseEchoed ==
    (CmdQuiescent \/ ThreadQuiescent)
    => CountCloseReplies(sent) = CountMatchingClose(received)
\* ---- C11
\* C11: when the response of open_session is not Okay, shell_command has
\* returned ADBRequestFailed without entering the loop: no message was read,
\* no frame was emitted, nothing was written to the output, and no step is
\* enabled any more.
C11_OpenNotAcknowledged ==
    (/\ call = "shell_command"
     /\ received = <<>>
     /\ response.command \notin {"None", "Okay"})
    => (/\ pc = "returned"
        /\ result = "ADBRequestFailed"
        /\ sent = <<>>
        /\ output = <<>>
        /\ ~ENABLED Next)

C11_Witness ==
    /\ call = "shell_command"
    /\ response.command = "Clse"
    /\ received = <<>>
    /\ sent = <<>>
    /\ output = <<>>
    /\ pc = "returned"
    /\ result = "ADBRequestFailed"
\* ---- C12
\* the messages shell_command has handled to the end: all those received,
\* but the last one while one of its arms is still running
Handled ==
    IF pc \in {"write_ack", "write_output", "write_close"}
    THEN Front(received) ELSE received

\* C12: in shell_command, as long as no I/O operation failed, the frames
\* emitted hold one Clse (local_id, remote_id) for each matching Clse handled
\* and no other Clse, whichever branch the flag selected afterwards.
C12_OneCloseReplyPerMatchingClose ==
    (CmdEstablished /\ result \notin IOFailures)
    => (/\ CountCloseReplies(sent) = CountMatchingClose(Handled)
        /\ CountCommand(sent, "Clse") = CountMatchingClose(Handled))

\* a close after data (loop continues) and a close after that (loop ends)
C12_Witness ==
    /\ CmdEstablished
    /\ Len(received) = 3
    /\ received[1].command = "Write"
    /\ received[2].command = "Clse"
    /\ received[3].command = "Clse"
    /\ CountCloseReplies(sent) = 2
    /\ result = "Ok"

\* ---- C13
\* a data frame is in msgs with no matching close after it
DataSinceLastClose(msgs) ==
    \E i \in 1..Len(msgs) :
        /\ msgs[i].command = "Write"
        /\ \A j \in (i + 1)..Len(msgs) :
              ~(msgs[j].command = "Clse" /\ Matching(msgs[j]))

\* C13: in shell_command, as long as no I/O operation failed, the flag is
\* true iff a data frame was handled since the last matching close handled;
\* the result is Ok only when the last message is a matching close that found
\* the flag false; and a matching close that found the flag true has reset it
\* and left the loop at read_message.
C13_PendingWritesFlag ==
    (CmdEstablished /\ result \notin IOFailures)
    => (/\ have_unconfirmed_writes <=> DataSinceLastClose(Handled)
        /\ result = "Ok" =>
              (/\ pc = "returned"
               /\ Last(received).command = "Clse"
               /\ Matching(Last(received))
               /\ ~DataSinceLastClose(Front(received)))
        /\ (/\ pc \in {"read_message", "returned"}
            /\ received # <<>>
            /\ Last(received).command = "Clse"
            /\ Matching(Last(received))
            /\ DataSinceLastClose(Front(received)))
           => (pc = "read_message" /\ result = "None" /\ ~have_unconfirmed_writes))

\* the flag is true again after data, close, data
C13_Witness ==
    /\ CmdEstablished
    /\ pc = "read_message"
    /\ Len(received) = 3
    /\ received[1].command = "Write"
    /\ received[2].command = "Clse" /\ Matching(received[2])
    /\ received[3].command = "Write"
    /\ have_unconfirmed_writes

\* ---- C14
\* C14: a payload is in the sink only after the acknowledgment of its frame
\* is on the transport. shell_command: the output never holds more payloads
\* than Okay frames were sent, and while a payload is about to be written the
\* Okay of every Write received is sent. Reading thread of shell: while a
\* payload is about to be written or flushed one Okay per message received
\* is sent, and nothing is flushed that was not written.
C14_AckBeforePayload ==
    /\ call = "shell_command"
       => (/\ Len(output) <= CountCommand(sent, "Okay")
           /\ pc = "write_output"
              => (/\ CountCommand(sent, "Okay") = CountCommand(received, "Write")
                  /\ Len(output) = CountCommand(sent, "Okay") - 1))
    /\ call = "shell"
       => (/\ Len(writer) <= CountCommand(sent, "Okay")
           /\ thread_pc \in {"write_all", "flush"}
              => CountCommand(sent, "Okay") = Len(received)
           /\ flushed <= Len(writer))

\* the second data frame is acknowledged and its payload not yet written
C14_Witness ==
    /\ call = "shell_command"
    /\ pc = "write_output"
    /\ CountCommand(sent, "Okay") = 2
    /\ Len(output) = 1
\* ---- C15
\* what shell_command has emitted, written and decided so far
Observed ==
    [sent |-> sent, output |-> output, flag |-> have_unconfirmed_writes,
     result |-> result]

ForeignClose(m) == m.command = "Clse" /\ ~Matching(m)
NotForeignClose(m) == ~ForeignClose(m)

\* C15: in shell_command, once every received message is handled without
\* I/O failure, the frames emitted, the output, the flag and the result are
\* those of the loop run on the messages received with the foreign Clse
\* frames left out; and after a foreign Clse the loop is at read_message.
C15_ForeignCloseIsSkipped ==
    CmdQuiescent
    => (/\ Observed = RunLoop(LoopStart, SelectSeq(received, NotForeignClose),
                              local_id, remote_id)
        /\ (received # <<>> /\ ForeignClose(Last(received)))
           => (pc = "read_message" /\ result = "None"))

\* data, a foreign close, then a matching close and a second one that ends
\* the loop
C15_Witness ==
    /\ CmdQuiescent
    /\ Len(received) = 4
    /\ received[1].command = "Write"
    /\ ForeignClose(received[2])
    /\ received[3].command = "Clse" /\ Matching(received[3])
    /\ received[4].command = "Clse" /\ Matching(received[4])
    /\ CountCommand(sent, "Clse") = 2
    /\ result = "Ok"

\* ---- C16
NotOkay(m) == m.command # "Okay"

\* C16: in shell_command, once every received message is handled without
\* I/O failure, the frames emitted, the output, the flag and the result are
\* those of the loop run on the messages received with the Okay frames left
\* out; and after an Okay the loop is at read_message.
C16_OkayIsSkipped ==
    CmdQuiescent
    => (/\ Observed = RunLoop(LoopStart, SelectSeq(received, NotOkay),
                              local_id, remote_id)
        /\ (received # <<>> /\ Last(received).command = "Okay")
           => (pc = "read_message" /\ result = "None"))

\* an Okay read with the flag true, and one with the flag false
C16_Witness ==
    /\ CmdQuiescent
    /\ Len(received) = 4
    /\ received[1].command = "Write"
    /\ received[2].command = "Okay"
    /\ received[3].command = "Clse" /\ Matching(received[3])
    /\ received[4].command = "Okay"
    /\ output = <<received[1].payload>>
    /\ CountCommand(sent, "Okay") = 1
    /\ ~have_unconfirmed_writes
    /\ pc = "read_message"
\* ---- C17
\* shell_command returns error e with nothing read, emitted or written and
\* the flag as it was
CmdFails(e) ==
    /\ pc' = "returned"
    /\ result' = e
    /\ UNCHANGED <<received, sent, output, have_unconfirmed_writes>>

\* C17: every step of shell_command's loop either completes its I/O
\* operation or returns that operation's error at once, leaving the messages
\* read, the frames emitted, the output and the flag as they were (so a
\* failed ack write leaves the payload unwritten and the flag unset); and
\* after the return shell_command takes no step.
C17_FailureReturnsAtOnce ==
    [][call = "shell_command"
       => (/\ pc = "read_message"
              => (\/ Len(received') = Len(received) + 1
                  \/ CmdFails("TransportError"))
           /\ pc = "write_ack"
              => (\/ /\ sent' = Append(sent, AckMessage(local_id, remote_id))
                     /\ pc' = "write_output"
                  \/ CmdFails("TransportError"))
           /\ pc = "write_output"
              => (\/ /\ output' = Append(output, response.payload)
                     /\ have_unconfirmed_writes'
                  \/ CmdFails("IOError"))
           /\ pc = "write_close"
              => (\/ sent' = Append(sent, CloseMessage(local_id, remote_id))
                  \/ CmdFails("TransportError"))
           /\ pc # "returned")]_vars

\* the ack write of the second data frame has failed
C17_Witness ==
    /\ call = "shell_command"
    /\ pc = "returned"
    /\ result = "TransportError"
    /\ Len(received) = 2
    /\ AllData(received)
    /\ CountCommand(sent, "Okay") = 1
    /\ output = <<received[1].payload>>
\* ---- C18
CountAcks(msgs) ==
    Cardinality({i \in 1..Len(msgs) : msgs[i] = [command |-> "Okay", arg0 |-> local_id,
                                                  arg1 |-> remote_id, payload |-> ""]})

\* C18: in shell(), as long as no I/O operation of the reading thread
\* failed, one Okay (local_id, remote_id) is on the transport for every
\* message the thread has received and got past the acknowledgment of,
\* whatever its command and ids; the thread has exited with
\* ADBShellNotSupported only on a message that is neither Write nor Okay and
\* after acknowledging it; the Okay frames sent are all (local_id, remote_id);
\* and no Clse frame is ever sent.
C18_EveryMessageAcknowledged ==
    call = "shell"
    => (/\ CountCommand(sent, "Clse") = 0
        /\ CountCommand(sent, "Okay") = CountAcks(sent)
        /\ thread_result \notin IOFailures
           => CountAcks(sent) =
                 (IF thread_pc = "write_ack" THEN Len(received) - 1 ELSE Len(received))
        /\ thread_result = "ADBShellNotSupported"
           => (/\ thread_pc = "exited"
               /\ Last(received).command \notin {"Write", "Okay"}
               /\ CountAcks(sent) = Len(received)))

\* a foreign Okay and then a matching Clse were both acknowledged
C18_Witness ==
    /\ call = "shell"
    /\ Len(received) = 2
    /\ received[1].command = "Okay" /\ ~Matching(received[1])
    /\ received[2].command = "Clse"
    /\ CountAcks(sent) = 2
    /\ thread_pc = "exited"
    /\ thread_result = "ADBShellNotSupported"
\* ---- C19
\* C19: the step in which shell() returns changes nothing of the reading
\* thread; after the return every step of the thread is still enabled (the
\* read of a message, its acknowledgment, the write to the sink, the flush);
\* and the thread exits only with an I/O error or, with
\* ADBShellNotSupported, on a message that is neither Write nor Okay.
C19_InboundHalfDetached ==
    /\ [][/\ (call = "shell" /\ pc # "returned" /\ pc' = "returned")
             => UNCHANGED <<threadVars, received>>
          /\ (thread_pc # "exited" /\ thread_pc' = "exited")
             => (\/ thread_result' \in IOFailures
                 \/ /\ thread_result' = "ADBShellNotSupported"
                    /\ message.command \notin {"Write", "Okay"})]_vars
    /\ []((call = "shell" /\ pc = "returned")
          => (/\ (thread_pc = "read_message" /\ Len(received) < MaxThreadReads)
                 => ENABLED ThreadReadMessage
              /\ thread_pc = "write_ack" => ENABLED ThreadWriteAck
              /\ thread_pc = "write_all" => ENABLED ThreadWriteAll
              /\ thread_pc = "flush" => ENABLED ThreadFlush))

\* shell() has returned before the reading thread has read its first
\* message, and the thread's read is enabled
C19_Witness ==
    /\ call = "shell"
    /\ pc = "returned"
    /\ result = "Ok"
    /\ thread_pc = "read_message"
    /\ received = <<>>
    /\ ENABLED ThreadReadMessage
\* ---- C20
\* the message just read ends the loop once handled: a command that is not
\* Write, Okay or Clse, or a matching Clse that finds the flag false
DefinitiveMessageRead ==
    /\ CmdEstablished
    /\ received # <<>>
    /\ \/ Last(received).command \notin {"Write", "Okay", "Clse"}
       \/ /\ pc = "write_close"
          /\ ~have_unconfirmed_writes

\* C20: once the session is established shell_command has returned only
\* (a) Ok, on a matching close that found the flag false, (b)
\* ADBRequestFailed, on a command that is not Write, Okay or Clse, or (c) an
\* I/O error; when its thread keeps taking steps, a definitive message read
\* leads to the return; and at read_message with no further message to come
\* no step is enabled: the controller blocks.
C20_Termination ==
    /\ []((CmdEstablished /\ pc = "returned")
          => (\/ /\ result = "Ok"
                 /\ Last(received).command = "Clse"
                 /\ Matching(Last(received))
                 /\ ~DataSinceLastClose(Front(received))
              \/ /\ result = "ADBRequestFailed"
                 /\ Last(received).command \notin {"Write", "Okay", "Clse"}
              \/ result \in IOFailures))
    /\ []((CmdEstablished /\ pc # "returned") => result = "None")
    /\ []((CmdEstablished /\ pc = "read_message" /\ Len(received) = MaxReads)
          => ~ENABLED NextCommand)
    /\ (DefinitiveMessageRead ~> pc = "returned")

\* the inbound stream has ended after a matching close that followed data:
\* shell_command is at read_message and no step is enabled
C20_Witness ==
    /\ CmdEstablished
    /\ pc = "read_message"
    /\ result = "None"
    /\ Len(received) = MaxReads
    /\ received[MaxReads - 1].command = "Write"
    /\ Last(received).command = "Clse"
    /\ Matching(Last(received))
    /\ ~ENABLED NextCommand
====
